---- MODULE Spec2Model ----
(***************************************************************************)
(* The notebooks of the eBEAM2024 tutorial as state machines.              *)
(*                                                                         *)
(* The machine-learning notebook                                           *)
(* (3_MachineLearning_Plasmonic_EELS_BlindSourceSeparation.ipynb): the     *)
(* state is the kernel's namespace (the signal s, its                      *)
(* data array and shape), the arguments of the most recent calls the       *)
(* notebook makes into the analysis library, and the output of the cell    *)
(* run last.  One action per code cell and per statement the notebook      *)
(* tells the reader to type.  A cell can be run at any time and any number *)
(* of times; a cell that uses a name the kernel does not hold yet raises   *)
(* NameError and changes nothing.                                          *)
(*                                                                         *)
(* The introduction notebook (cathodoluminescence map cl2, its copy cl2a   *)
(* and the model m) and the function to_ragged it defines follow further   *)
(* down, each with a specification of its own.                             *)
(*                                                                         *)
(* The notebook only CALLS decomposition, blind_source_separation and the  *)
(* plot routines; their bodies belong to the library and are not part of   *)
(* the repository.  The model therefore records each call with its         *)
(* arguments and says nothing about what the library computes.             *)
(***************************************************************************)
EXTENDS Integers, Sequences, FiniteSets, TLC

\* ---------------------------------------------------------------- bounds
\* Largest number of navigation pixels (d1*d2) of a loaded spectrum image.
MaxPixels == 2
\* Largest signal length (number of energy channels) of a loaded image.
MaxSig == 2
\* Largest number of samples (d1*d2*L) of a loaded image.
MaxSamples == 4
\* Sample values a loaded file may hold (counts after preprocessing; a
\* file that was not offset-corrected can hold negative values).
Values == {-1, 0, 2}

\* Largest number of wavelength channels of the map in the .dm4 file.
MaxChannels == 7
\* Largest number of components a model is given (m.append run again adds
\* one more each time).
MaxComponents == 2

\* ------------------------------------------------- constants of the calls
\* cl2.isig[:-3]
CropPixels == 3
\* cl2.rebin(scale=[1,1,2])
RebinScale == 2
\* hs.model.components1D.SkewNormal(x0=650)
X0Start == 650
\* s.decomposition(..., algorithm='NMF', output_dimension=9)
NMFOutputDimension == 9
\* s.blind_source_separation(number_of_components=9)
BSSComponents == 9
\* s.plot_explained_variance_ratio(n = 30)
ScreeN == 30

VARIABLES
    file,       \* contents of the .hspy file on disk: [shape |-> ..., data |-> ...]
    imported,   \* the import cell has run: np and hs are bound
    s,          \* "unbound", or the signal: [shape |-> <<d1,d2,L>>, data |-> ...]
    learning,   \* arguments of the last s.decomposition call, or NoCall
    bss,        \* arguments of the last s.blind_source_separation call, or NoCall
    out,        \* what the cell run last displayed
    pc,         \* Run All: number of cells of the notebook run so far, top to bottom
    \* The kernel of the introduction notebook (cathodoluminescence map):
    dm4,        \* shape <<d1,d2,L>> of the map in data/asymmetric-peak_map.dm4
    heap,       \* the signal objects alive in the kernel, by object id
    cl2,        \* object id the name cl2 is bound to (0: unbound)
    cl2a,       \* object id the name cl2a is bound to (0: unbound)
    m,          \* the model the name m is bound to, or Unbound
    \* A call of to_ragged:
    arg,        \* the signal passed as s, or Unbound
    ret         \* what the call returned (or raised), or Unbound

vars == <<file, imported, s, learning, bss, out, pc, dm4, heap, cl2, cl2a, m, arg, ret>>

\* The state of the machine-learning notebook, of the introduction notebook
\* and of a to_ragged call.
mlstate == <<file, s, learning, bss>>
clstate == <<dm4, heap, cl2, cl2a, m>>
rgstate == <<arg, ret>>

NoCall == [call |-> "none"]
Unbound == [bound |-> FALSE]

\* Navigation shapes (d1, d2) and signal lengths a loaded file can have.
NavShapes == {sh \in (1..MaxPixels) \X (1..MaxPixels) : sh[1] * sh[2] <= MaxPixels}
SigSizes == 1..MaxSig

\* Coordinates of the samples of a cube of navigation shape (d1,d2) and
\* signal length L.
Coords(d1, d2, L) == (0..(d1 - 1)) \X (0..(d2 - 1)) \X (0..(L - 1))

\* Smallest value of a data array: numpy's ndarray.min() over all axes.
DataMin(data) == CHOOSE lo \in {data[c] : c \in DOMAIN data} :
                    \A c \in DOMAIN data : lo <= data[c]

\* The offset step with the sign slipped (s.data += s.data.min()).
OffsetAdded(data) == [c \in DOMAIN data |-> data[c] + DataMin(data)]

\* s.data -= s.data.min(): the array with its minimum subtracted from
\* every sample (the same as s.data = s.data - s.data.min()).
OffsetSubtracted(data) == [c \in DOMAIN data |-> data[c] - DataMin(data)]

\* The cubes a data file can hold: every navigation shape and signal length
\* within the bounds, with one sample per coordinate.
CubeShapes == {<<sh[1], sh[2], L>> : sh \in NavShapes, L \in SigSizes}
Cubes == UNION {{[shape |-> shp, data |-> d] :
                   d \in [Coords(shp[1], shp[2], shp[3]) -> Values]} :
                shp \in {c \in CubeShapes : c[1] * c[2] * c[3] <= MaxSamples}}

Init ==
    /\ file \in Cubes
    /\ imported = FALSE
    /\ s = Unbound
    /\ learning = NoCall
    /\ bss = NoCall
    /\ out = <<"none">>
    /\ pc = 0
    /\ dm4 = <<1, 1, 1>>
    /\ heap = <<>>
    /\ cl2 = 0
    /\ cl2a = 0
    /\ m = Unbound
    /\ arg = Unbound
    /\ ret = Unbound

\* %matplotlib widget; import numpy as np; import hyperspy.api as hs
ImportCell ==
    /\ imported' = TRUE
    /\ out' = <<"none">>
    /\ UNCHANGED <<file, s, learning, bss>>

\* hs.__version__ and np.__version__
VersionCells ==
    /\ imported
    /\ out' = <<"version">>
    /\ UNCHANGED <<file, imported, s, learning, bss>>

\* s = hs.load('data/Bipyramid_EELS_zlp_aligned_spikes_removed_rebinned.hspy')
\* binds s to a fresh signal holding what the file holds; no decomposition
\* has been called on it yet.
LoadCell ==
    /\ imported
    /\ s' = [bound |-> TRUE, shape |-> file.shape, data |-> file.data]
    /\ learning' = NoCall
    /\ bss' = NoCall
    /\ out' = <<"none">>
    /\ UNCHANGED <<file, imported>>

\* s  (the cell displays the signal: its navigation and signal dimensions)
ShowSignalCell ==
    /\ s.bound
    /\ out' = <<"signal", s.shape>>
    /\ UNCHANGED <<file, imported, s, learning, bss>>

\* hs.print_known_signal_types() and s.axes_manager
InspectCells ==
    /\ imported
    /\ out' = <<"inspect">>
    /\ UNCHANGED <<file, imported, s, learning, bss>>

\* s.data.min()
DataMinCell ==
    /\ s.bound
    /\ out' = <<"min", DataMin(s.data)>>
    /\ UNCHANGED <<file, imported, s, learning, bss>>

\* s.data -= s.data.min()   (the statement the notebook tells the reader
\* to use to make the data non-negative)
OffsetSubtractStatement ==
    /\ s.bound
    /\ s' = [s EXCEPT !.data = OffsetSubtracted(s.data)]
    /\ out' = <<"none">>
    /\ UNCHANGED <<file, imported, learning, bss>>

\* s.plot()
PlotCell ==
    /\ s.bound
    /\ out' = <<"plot", s.shape>>
    /\ UNCHANGED <<file, imported, s, learning, bss>>

\* The call s.decomposition(normalize_poissonian_noise=True, algorithm='SVD'):
\* no output_dimension is passed.
SVDCall == [call |-> "decomposition", algorithm |-> "SVD",
            normalize_poissonian_noise |-> TRUE, output_dimension |-> "None"]

\* The call s.decomposition(normalize_poissonian_noise=True, algorithm='NMF',
\* output_dimension=9).
NMFCall == [call |-> "decomposition", algorithm |-> "NMF",
            normalize_poissonian_noise |-> TRUE,
            output_dimension |-> NMFOutputDimension]

\* The SVD cell, and step 1 of the ICA recipe (re-run the SVD decomposition).
DecompositionSVDCell ==
    /\ s.bound
    /\ learning' = SVDCall
    /\ out' = <<"none">>
    /\ UNCHANGED <<file, imported, s, bss>>

\* s.plot_explained_variance_ratio(n = 30)
PlotExplainedVarianceRatioCell ==
    /\ s.bound
    /\ out' = <<"scree", ScreeN, learning>>
    /\ UNCHANGED <<file, imported, s, learning, bss>>

\* The NMF cell.
DecompositionNMFCell ==
    /\ s.bound
    /\ learning' = NMFCall
    /\ out' = <<"none">>
    /\ UNCHANGED <<file, imported, s, bss>>

\* s.plot_decomposition_results(), s.plot_decomposition_loadings(),
\* s.plot_decomposition_factors()
PlotDecompositionCells ==
    /\ s.bound
    /\ out' = <<"decomposition plot", learning>>
    /\ UNCHANGED <<file, imported, s, learning, bss>>

\* A blind source separation that kept no state between calls: it would
\* always unmix the vectors of its own SVD, whatever decomposition was run
\* on the signal before.
StatelessBlindSourceSeparation ==
    /\ s.bound
    /\ bss' = [call |-> "blind_source_separation",
               number_of_components |-> BSSComponents,
               on |-> SVDCall]
    /\ out' = <<"none">>
    /\ UNCHANGED <<file, imported, s, learning>>

\* s.blind_source_separation(number_of_components=9)   (step 2 of the ICA
\* recipe); the call acts on the results of the decomposition run last.
BlindSourceSeparationStatement ==
    /\ s.bound
    /\ bss' = [call |-> "blind_source_separation",
               number_of_components |-> BSSComponents,
               on |-> learning]
    /\ out' = <<"none">>
    /\ UNCHANGED <<file, imported, s, learning>>

\* s.plot_bss_results(), s.plot_bss_loadings(), s.plot_bss_factors()
\* (step 3 of the ICA recipe)
PlotBssStatements ==
    /\ s.bound
    /\ out' = <<"bss plot", bss>>
    /\ UNCHANGED <<file, imported, s, learning, bss>>

\* An interactive session: the reader runs any cell at any time, any
\* number of times.
Next ==
    \/ ImportCell /\ UNCHANGED <<pc, clstate, rgstate>>
    \/ VersionCells /\ UNCHANGED <<pc, clstate, rgstate>>
    \/ LoadCell /\ UNCHANGED <<pc, clstate, rgstate>>
    \/ ShowSignalCell /\ UNCHANGED <<pc, clstate, rgstate>>
    \/ InspectCells /\ UNCHANGED <<pc, clstate, rgstate>>
    \/ DataMinCell /\ UNCHANGED <<pc, clstate, rgstate>>
    \/ OffsetSubtractStatement /\ UNCHANGED <<pc, clstate, rgstate>>
    \/ PlotCell /\ UNCHANGED <<pc, clstate, rgstate>>
    \/ DecompositionSVDCell /\ UNCHANGED <<pc, clstate, rgstate>>
    \/ PlotExplainedVarianceRatioCell /\ UNCHANGED <<pc, clstate, rgstate>>
    \/ DecompositionNMFCell /\ UNCHANGED <<pc, clstate, rgstate>>
    \/ PlotDecompositionCells /\ UNCHANGED <<pc, clstate, rgstate>>
    \/ BlindSourceSeparationStatement /\ UNCHANGED <<pc, clstate, rgstate>>
    \/ PlotBssStatements /\ UNCHANGED <<pc, clstate, rgstate>>

Spec == Init /\ [][Next]_vars

\* The ICA recipe without its first step: nothing is re-run.
SkipRerunSVD ==
    /\ s.bound
    /\ out' = <<"none">>
    /\ UNCHANGED <<file, imported, s, learning, bss>>

\* Step 1 of the ICA recipe: "First re-run the SVD decomposition"
\* s.decomposition(normalize_poissonian_noise=True,algorithm='SVD')
RerunSVDStatement == DecompositionSVDCell

\* The notebook workflow: the cells run once each from top to bottom, and
\* then the three steps of the ICA recipe in the order the notebook gives.
WorkflowNext ==
    \/ pc = 0 /\ ImportCell /\ pc' = 1 /\ UNCHANGED <<clstate, rgstate>>
    \/ pc = 1 /\ VersionCells /\ pc' = 2 /\ UNCHANGED <<clstate, rgstate>>
    \/ pc = 2 /\ LoadCell /\ pc' = 3 /\ UNCHANGED <<clstate, rgstate>>
    \/ pc = 3 /\ ShowSignalCell /\ pc' = 4 /\ UNCHANGED <<clstate, rgstate>>
    \/ pc = 4 /\ InspectCells /\ pc' = 5 /\ UNCHANGED <<clstate, rgstate>>
    \/ pc = 5 /\ DataMinCell /\ pc' = 6 /\ UNCHANGED <<clstate, rgstate>>
    \/ pc = 6 /\ PlotCell /\ pc' = 7 /\ UNCHANGED <<clstate, rgstate>>
    \/ pc = 7 /\ DecompositionSVDCell /\ pc' = 8 /\ UNCHANGED <<clstate, rgstate>>
    \/ pc = 8 /\ PlotExplainedVarianceRatioCell /\ pc' = 9 /\ UNCHANGED <<clstate, rgstate>>
    \/ pc = 9 /\ DecompositionNMFCell /\ pc' = 10 /\ UNCHANGED <<clstate, rgstate>>
    \/ pc = 10 /\ PlotDecompositionCells /\ pc' = 11 /\ UNCHANGED <<clstate, rgstate>>
    \/ pc = 11 /\ RerunSVDStatement /\ pc' = 12 /\ UNCHANGED <<clstate, rgstate>>
    \/ pc = 12 /\ BlindSourceSeparationStatement /\ pc' = 13 /\ UNCHANGED <<clstate, rgstate>>
    \/ pc = 13 /\ PlotBssStatements /\ pc' = 14 /\ UNCHANGED <<clstate, rgstate>>

SpecWorkflow == Init /\ [][WorkflowNext]_vars

\* ------------------------------------------ the introduction notebook
\* The introduction notebook (cells of its kernel, in the order of the
\* notebook).  Signals are objects: a name holds an object id, an in-place
\* method changes the object every holder of the id sees, and an expression
\* that returns a signal makes a new object.  A sample is recorded by the
\* set of samples of the loaded file it was computed from, and the in-place
\* tools by a mark on the object, so nothing is said about the numbers the
\* library computes.

\* The maps the .dm4 file can hold: every navigation shape within MaxPixels
\* and 1 to MaxChannels wavelength channels.
CLShapes == {<<sh[1], sh[2], L>> : sh \in NavShapes, L \in 1..MaxChannels}

\* hs.load: a signal holding the file's samples, no tool applied yet.
Loaded(shp) ==
    [shape |-> shp,
     data  |-> [c \in Coords(shp[1], shp[2], shp[3]) |-> {c}],
     edits |-> {}]

\* The object ids names of the kernel hold, and the objects a kernel with
\* these bindings keeps alive (an object no name refers to is freed).
LiveIds(a, b, mm) == ({a, b} \cup (IF mm.bound THEN {mm.signal} ELSE {})) \ {0}
Collect(h, a, b, mm) == [i \in (DOMAIN h) \cap LiveIds(a, b, mm) |-> h[i]]

\* Object ids are kept in a normal form, since only which names share an
\* object matters: 1 is the object cl2 holds, 2 the object only cl2a holds,
\* 3 an object only m still holds.  NewId is the id of an object from its
\* construction until a name is bound to it.
NewId == 4
Renamed(i, a, b) == IF i = a THEN 1 ELSE IF i = b THEN 2 ELSE 3

\* The kernel after an assignment: cl2 holds object a, cl2a object b and m
\* the model mm, out of the objects of h; objects no name holds are freed.
Bind(h, a, b, mm) ==
    /\ cl2' = IF a = 0 THEN 0 ELSE 1
    /\ cl2a' = IF b = 0 THEN 0 ELSE Renamed(b, a, b)
    /\ m' = IF mm.bound THEN [mm EXCEPT !.signal = Renamed(@, a, b)] ELSE mm
    /\ heap' = [j \in {Renamed(i, a, b) : i \in LiveIds(a, b, mm)} |->
                  h[CHOOSE i \in LiveIds(a, b, mm) : Renamed(i, a, b) = j]]

\* The heap with object id set to sig.
Store(h, id, sig) == [i \in (DOMAIN h) \cup {id} |-> IF i = id THEN sig ELSE h[i]]

\* Length of the Python slice [:-3] of an axis of L channels.
SliceEnd(L) == IF L > CropPixels THEN L - CropPixels ELSE 0

\* The crop taken from the wrong end: sig.isig[3:].
CroppedFront(sig) ==
    [shape |-> <<sig.shape[1], sig.shape[2], SliceEnd(sig.shape[3])>>,
     data  |-> [c \in Coords(sig.shape[1], sig.shape[2], SliceEnd(sig.shape[3]))
                   |-> sig.data[<<c[1], c[2], c[3] + CropPixels>>]],
     edits |-> sig.edits]

\* sig.isig[:-3]: a signal without the last three channels of every
\* spectrum; the navigation axes and the other samples are those of sig.
Cropped(sig) ==
    [shape |-> <<sig.shape[1], sig.shape[2], SliceEnd(sig.shape[3])>>,
     data  |-> [c \in Coords(sig.shape[1], sig.shape[2], SliceEnd(sig.shape[3]))
                   |-> sig.data[c]],
     edits |-> sig.edits]

\* Lengths the signal axis of L channels can have after rebinning by 2: L/2
\* when L is even; for odd L the source does not say how the library treats
\* the channel left over (dropped, or a bin of its own).
RebinSizes(L) == IF L % RebinScale = 0 THEN {L \div RebinScale}
                 ELSE {L \div RebinScale, L \div RebinScale + 1}

\* The rebin with the scale on the wrong axis: sig.rebin(scale=[2,1,1])
\* merges navigation pixels and keeps every channel.
RebinnedFirstAxis(sig, newL) ==
    [shape |-> <<(sig.shape[1] + 1) \div RebinScale, sig.shape[2], sig.shape[3]>>,
     data  |-> [c \in Coords((sig.shape[1] + 1) \div RebinScale, sig.shape[2], sig.shape[3])
                   |-> UNION {sig.data[<<i, c[2], c[3]>>] :
                                i \in {RebinScale * c[1], RebinScale * c[1] + 1}
                                        \cap (0..(sig.shape[1] - 1))}],
     edits |-> sig.edits]

\* sig.rebin(scale=[1,1,2]) with newL channels in the result: channel j is
\* computed from channels 2j and 2j+1 of the same pixel; the two navigation
\* axes have scale 1.
Rebinned(sig, newL) ==
    [shape |-> <<sig.shape[1], sig.shape[2], newL>>,
     data  |-> [c \in Coords(sig.shape[1], sig.shape[2], newL)
                   |-> UNION {sig.data[<<c[1], c[2], k>>] :
                                k \in {RebinScale * c[3], RebinScale * c[3] + 1}
                                        \cap (0..(sig.shape[3] - 1))}],
     edits |-> sig.edits]

\* sig after an in-place tool has overwritten its data.
Edited(sig, tool) == [sig EXCEPT !.edits = @ \cup {tool}]

\* %matplotlib widget; import hyperspy.api as hs; import numpy as np;
\* hs.preferences.Plot.widget_plot_style = 'horizontal'
CLImportCell ==
    /\ imported' = TRUE
    /\ out' = <<"none">>
    /\ UNCHANGED <<dm4, heap, cl2, cl2a, m>>

\* cl1 = hs.load("data/01_demo.hspy"); cl2 = hs.load("data/asymmetric-peak_map.dm4")
\* cl2 is bound to a new object holding the file's map.  (cl1 is only
\* plotted by the notebook and is not recorded.)
CLLoadCell ==
    /\ imported
    /\ Bind(Store(heap, NewId, Loaded(dm4)), NewId, cl2a, m)
    /\ out' = <<"none">>
    /\ UNCHANGED dm4

\* cl2, cl2.axes_manager, cl2.data, cl2.metadata, cl2.original_metadata,
\* the cl1 plots, hs.plot.plot_roi_map(cl2, rois=2), cl2.plot(): cells that
\* display cl2 and change nothing.
CLDisplayCells ==
    /\ cl2 # 0
    /\ out' = <<"plot">>
    /\ UNCHANGED <<dm4, heap, cl2, cl2a, m>>

\* cl2.plot(); cl2.remove_background(background_type="Offset")
\* The tool is interactive: pressing Apply removes the background from cl2,
\* closing the tool without Apply leaves cl2 as it was.
RemoveBackgroundCell ==
    /\ cl2 # 0
    /\ \/ heap' = Store(heap, cl2, Edited(heap[cl2], "remove_background"))
       \/ heap' = heap
    /\ out' = <<"plot">>
    /\ UNCHANGED <<dm4, cl2, cl2a, m>>

\* The crop done on the signal itself instead of on a new one.
CropCellInPlace ==
    /\ cl2 # 0
    /\ heap' = Store(heap, cl2, Cropped(heap[cl2]))
    /\ out' = <<"none">>
    /\ UNCHANGED <<dm4, cl2, cl2a, m>>

\* cl2 = cl2.isig[:-3]
\* The slice makes a new signal and cl2 is bound to it; the object cl2
\* held before is not touched (m may still hold it).  With three channels
\* or fewer nothing is left: the source does not say whether the library
\* then raises or returns an empty signal, so both can happen.
CropCell ==
    /\ cl2 # 0
    /\ \/ /\ Bind(Store(heap, NewId, Cropped(heap[cl2])), NewId, cl2a, m)
          /\ out' = <<"none">>
       \/ /\ SliceEnd(heap[cl2].shape[3]) = 0
          /\ out' = <<"error", "isig">>
          /\ UNCHANGED <<heap, cl2, cl2a, m>>
    /\ UNCHANGED dm4

\* cl2.spikes_removal_tool(interactive=False)
\* "This function, interactive or not, will overwrite the original signal":
\* the object cl2 holds is changed, cl2 stays bound to it.
SpikesRemovalCell ==
    /\ cl2 # 0
    /\ heap' = Store(heap, cl2, Edited(heap[cl2], "spikes_removal_tool"))
    /\ out' = <<"none">>
    /\ UNCHANGED <<dm4, cl2, cl2a, m>>

\* cl2 = cl2.rebin(scale=[1,1,2]); cl2.plot()
\* The rebin makes a new signal and cl2 is bound to it.  The source does
\* not say what the library does with a length that is not a multiple of
\* the scale: the call raises, or returns a signal of one of RebinSizes
\* (never one without channels).
RebinCell ==
    /\ cl2 # 0
    /\ \/ \E newL \in RebinSizes(heap[cl2].shape[3]) \ {0} :
             /\ Bind(Store(heap, NewId, Rebinned(heap[cl2], newL)), NewId, cl2a, m)
             /\ out' = <<"plot">>
       \/ /\ heap[cl2].shape[3] = 0 \/ heap[cl2].shape[3] % RebinScale # 0
          /\ out' = <<"error", "rebin">>
          /\ UNCHANGED <<heap, cl2, cl2a, m>>
    /\ UNCHANGED dm4

\* The smoothing cell with a plain assignment instead of the copy:
\* cl2a = cl2; cl2.plot(); cl2a.smooth_lowess(number_of_iterations = 2)
AliasSmoothCell ==
    /\ cl2 # 0
    /\ \/ Bind(Store(heap, cl2, Edited(heap[cl2], "smooth_lowess")), cl2, cl2, m)
       \/ Bind(heap, cl2, cl2, m)
    /\ out' = <<"plot">>
    /\ UNCHANGED dm4

\* cl2a = cl2.deepcopy(); cl2.plot(); cl2a.smooth_lowess(number_of_iterations = 2)
\* cl2a is bound to a new object with the contents of cl2.  The smoothing
\* tool opens on cl2a: Apply smooths cl2a, closing the tool leaves the copy
\* as it is.
CopySmoothCell ==
    /\ cl2 # 0
    /\ \/ Bind(Store(heap, NewId, Edited(heap[cl2], "smooth_lowess")), cl2, NewId, m)
       \/ Bind(Store(heap, NewId, heap[cl2]), cl2, NewId, m)
    /\ out' = <<"plot">>
    /\ UNCHANGED dm4

\* cl2a.plot(); cl2a.save("data/asymmetric-peak_map_cleaned.hspy")
CopyDisplayCells ==
    /\ cl2a # 0
    /\ out' = <<"plot">>
    /\ UNCHANGED <<dm4, heap, cl2, cl2a, m>>

\* A model that is initialised with a component of its own, as the notebook
\* says happens "for some types of signals like EDS and EELS".
CreateModelAutoComponent ==
    /\ cl2 # 0
    /\ m' = [bound |-> TRUE, signal |-> cl2,
             components |-> <<[component |-> "SkewNormal", x0 |-> X0Start]>>,
             fitted |-> FALSE]
    /\ heap' = Collect(heap, cl2, cl2a, m')
    /\ out' = <<"none">>
    /\ UNCHANGED <<dm4, cl2, cl2a>>

\* m = cl2.create_model()
\* m is bound to a new model of the object cl2 holds now; it has no
\* components and has not been fitted.
CreateModelCell ==
    /\ cl2 # 0
    /\ m' = [bound |-> TRUE, signal |-> cl2, components |-> <<>>, fitted |-> FALSE]
    /\ heap' = Collect(heap, cl2, cl2a, m')
    /\ out' = <<"none">>
    /\ UNCHANGED <<dm4, cl2, cl2a>>

\* m.components
ShowComponentsCell ==
    /\ m.bound
    /\ out' = <<"components", m.components>>
    /\ UNCHANGED <<dm4, heap, cl2, cl2a, m>>

\* g1 = hs.model.components1D.SkewNormal(x0=650); m.append(g1); m.components
\* A new SkewNormal component is added at the end of the component list
\* of m and the list is displayed.
AppendCell ==
    /\ m.bound
    /\ Len(m.components) < MaxComponents
    /\ m' = [m EXCEPT !.components =
                Append(@, [component |-> "SkewNormal", x0 |-> X0Start])]
    /\ out' = <<"components", m'.components>>
    /\ UNCHANGED <<dm4, heap, cl2, cl2a>>

\* m.print_current_values(), m.plot(), g1.A.as_signal().plot(cmap='viridis')
ModelDisplayCells ==
    /\ m.bound
    /\ out' = <<"plot">>
    /\ UNCHANGED <<dm4, heap, cl2, cl2a, m>>

\* m.multifit(): fits the components of m to the signal m was created from.
MultifitCell ==
    /\ m.bound
    /\ m' = [m EXCEPT !.fitted = TRUE]
    /\ out' = <<"none">>
    /\ UNCHANGED <<dm4, heap, cl2, cl2a>>

\* peaks = cl2a.isig[600.:].find_peaks1D_ohaver(maxpeakn=1); peaks[0,0];
\* com = cl2a.isig[600.:].centroid(); com.plot(...);
\* width = cl2a.isig[600.:].estimate_peak_width(return_interval=True); ...
\* cl2a.add_marker([mrk,mrkl,mrkr], permanent=True); cl2a.plot()
\* The analysis cells read cl2a and bind names of their own.
AnalysisCells ==
    /\ cl2a # 0
    /\ out' = <<"plot">>
    /\ UNCHANGED <<dm4, heap, cl2, cl2a, m>>

\* The kernel of the introduction notebook before its first cell has run.
InitCL ==
    /\ dm4 \in CLShapes
    /\ imported = FALSE
    /\ heap = <<>>
    /\ cl2 = 0
    /\ cl2a = 0
    /\ m = Unbound
    /\ out = <<"none">>
    /\ pc = 0
    /\ file = [shape |-> <<1, 1, 1>>, data |-> [c \in Coords(1, 1, 1) |-> 0]]
    /\ s = Unbound
    /\ learning = NoCall
    /\ bss = NoCall
    /\ arg = Unbound
    /\ ret = Unbound

\* A session on the preprocessing part of the notebook: any of the cells
\* from the import to the creation of the model is run at any time, any
\* number of times (the notebook warns about running the crop and the rebin
\* cell more than once).
NextCL ==
    \/ CLImportCell /\ UNCHANGED <<pc, mlstate, rgstate>>
    \/ CLLoadCell /\ UNCHANGED <<imported, pc, mlstate, rgstate>>
    \/ CLDisplayCells /\ UNCHANGED <<imported, pc, mlstate, rgstate>>
    \/ RemoveBackgroundCell /\ UNCHANGED <<imported, pc, mlstate, rgstate>>
    \/ CropCell /\ UNCHANGED <<imported, pc, mlstate, rgstate>>
    \/ SpikesRemovalCell /\ UNCHANGED <<imported, pc, mlstate, rgstate>>
    \/ RebinCell /\ UNCHANGED <<imported, pc, mlstate, rgstate>>
    \/ CreateModelCell /\ UNCHANGED <<imported, pc, mlstate, rgstate>>

SpecCL == InitCL /\ [][NextCL]_vars

\* Run All on the introduction notebook: the cells run once each, top to
\* bottom; a cell that raises stops the run at that cell.
NextCLWorkflow ==
    \/ pc = 0 /\ CLImportCell /\ pc' = 1 /\ UNCHANGED <<mlstate, rgstate>>
    \/ pc = 1 /\ CLLoadCell /\ pc' = 2 /\ UNCHANGED <<imported, mlstate, rgstate>>
    \/ pc = 2 /\ CLDisplayCells /\ pc' = 3 /\ UNCHANGED <<imported, mlstate, rgstate>>
    \/ pc = 3 /\ RemoveBackgroundCell /\ pc' = 4 /\ UNCHANGED <<imported, mlstate, rgstate>>
    \/ /\ pc = 4 /\ CropCell /\ pc' = (IF out'[1] = "error" THEN 4 ELSE 5)
       /\ UNCHANGED <<imported, mlstate, rgstate>>
    \/ pc = 5 /\ CLDisplayCells /\ pc' = 6 /\ UNCHANGED <<imported, mlstate, rgstate>>
    \/ pc = 6 /\ SpikesRemovalCell /\ pc' = 7 /\ UNCHANGED <<imported, mlstate, rgstate>>
    \/ /\ pc = 7 /\ RebinCell /\ pc' = (IF out'[1] = "error" THEN 7 ELSE 8)
       /\ UNCHANGED <<imported, mlstate, rgstate>>
    \/ pc = 8 /\ CopySmoothCell /\ pc' = 9 /\ UNCHANGED <<imported, mlstate, rgstate>>
    \/ pc = 9 /\ CopyDisplayCells /\ pc' = 10 /\ UNCHANGED <<imported, mlstate, rgstate>>
    \/ pc = 10 /\ CreateModelCell /\ pc' = 11 /\ UNCHANGED <<imported, mlstate, rgstate>>
    \/ pc = 11 /\ ShowComponentsCell /\ pc' = 12 /\ UNCHANGED <<imported, mlstate, rgstate>>
    \/ pc = 12 /\ AppendCell /\ pc' = 13 /\ UNCHANGED <<imported, mlstate, rgstate>>
    \/ pc = 13 /\ ModelDisplayCells /\ pc' = 14 /\ UNCHANGED <<imported, mlstate, rgstate>>
    \/ pc = 14 /\ MultifitCell /\ pc' = 15 /\ UNCHANGED <<imported, mlstate, rgstate>>
    \/ pc = 15 /\ ModelDisplayCells /\ pc' = 16 /\ UNCHANGED <<imported, mlstate, rgstate>>
    \/ pc = 16 /\ AnalysisCells /\ pc' = 17 /\ UNCHANGED <<imported, mlstate, rgstate>>

SpecCLWorkflow == InitCL /\ [][NextCLWorkflow]_vars

\* ------------------------------------------------------------- to_ragged
\* The function to_ragged the introduction notebook defines.  A signal is
\* recorded with the sizes of its navigation and of its signal axes in the
\* order of its data array, whose axes are the navigation axes followed by
\* the signal axes; data maps every index tuple of the array to a sample.

Reverse(seq) == [i \in 1..Len(seq) |-> seq[Len(seq) + 1 - i]]

\* Number of entries of an array of the given shape.
RECURSIVE Product(_)
Product(shape) == IF shape = <<>> THEN 1 ELSE Head(shape) * Product(Tail(shape))

\* np.ndindex(shape): the index tuples of an array of that shape (the one
\* empty tuple for a shape without axes).
NdIndex(shape) == {idx \in [1..Len(shape) -> 0..(MaxSamples + 1)] :
                     \A k \in 1..Len(shape) : idx[k] < shape[k]}

\* s.data.shape
DataShape(sg) == sg.nav \o sg.sig

\* s.axes_manager.navigation_shape: the sizes of the navigation axes, listed
\* in the reverse of the order they have in the data array.
NavigationShape(sg) == Reverse(sg.nav)

\* s.T: the transposed signal; its navigation axes are the signal axes of s
\* and its signal axes the navigation axes of s.
T(sg) ==
    [bound |-> TRUE, nav |-> sg.sig, sig |-> sg.nav,
     data |-> [idx \in NdIndex(sg.sig \o sg.nav) |->
                 sg.data[SubSeq(idx, Len(sg.sig) + 1, Len(idx))
                         \o SubSeq(idx, 1, Len(sg.sig))]]]

\* s.data[indices] for a tuple of indices: the sample when the tuple has one
\* index per axis, otherwise the sub-array the leading axes select.
Item(sg, indices) ==
    IF Len(indices) = Len(DataShape(sg)) THEN sg.data[indices]
    ELSE [rest \in NdIndex(SubSeq(DataShape(sg), Len(indices) + 1, Len(DataShape(sg))))
            |-> sg.data[indices \o rest]]

\* numpy raises IndexError for an index beyond the size of its axis.
InBounds(sg, indices) ==
    \A k \in 1..Len(indices) : indices[k] < DataShape(sg)[k]

\* to_ragged with the reversal [::-1] left out.
to_ragged_unreversed(sg) ==
    IF \E indices \in NdIndex(NavigationShape(T(sg))) : ~InBounds(sg, indices)
    THEN [bound |-> TRUE, raised |-> "IndexError"]
    ELSE [bound |-> TRUE, raised |-> "none", ragged |-> TRUE,
          shape |-> NavigationShape(T(sg)),
          data |-> [indices \in NdIndex(NavigationShape(T(sg))) |->
                      <<Item(sg, indices)>>]]

\* def to_ragged(s):
\*     s2 = hs.signals.BaseSignal(np.empty(s.T.axes_manager.navigation_shape[::-1], dtype=object), ragged=True)
\*     for indices in np.ndindex(s2.data.shape):
\*         s2.data[indices] = np.array([s.data[indices]])
\*     return s2
to_ragged(sg) ==
    IF \E indices \in NdIndex(Reverse(NavigationShape(T(sg)))) : ~InBounds(sg, indices)
    THEN [bound |-> TRUE, raised |-> "IndexError"]
    ELSE [bound |-> TRUE, raised |-> "none", ragged |-> TRUE,
          shape |-> Reverse(NavigationShape(T(sg))),
          data |-> [indices \in NdIndex(Reverse(NavigationShape(T(sg)))) |->
                      <<Item(sg, indices)>>]]

\* The signals to_ragged is applied to: one or two signal axes, at most one
\* navigation axis, at most MaxSamples samples.
AxesSizes(n) == {shape \in [1..n -> 1..MaxSamples] : Product(shape) <= MaxSamples}
RaggedShapes ==
    {p \in (AxesSizes(0) \cup AxesSizes(1)) \X (AxesSizes(1) \cup AxesSizes(2)) :
        Product(p[1] \o p[2]) <= MaxSamples}
RaggedInputs ==
    UNION {{[bound |-> TRUE, nav |-> p[1], sig |-> p[2], data |-> d] :
              d \in [NdIndex(p[1] \o p[2]) -> Values]} :
           p \in RaggedShapes}

InitRagged ==
    /\ arg \in RaggedInputs
    /\ ret = Unbound
    /\ imported = TRUE
    /\ out = <<"none">>
    /\ pc = 0
    /\ file = [shape |-> <<1, 1, 1>>, data |-> [c \in Coords(1, 1, 1) |-> 0]]
    /\ s = Unbound
    /\ learning = NoCall
    /\ bss = NoCall
    /\ dm4 = <<1, 1, 1>>
    /\ heap = <<>>
    /\ cl2 = 0
    /\ cl2a = 0
    /\ m = Unbound

\* to_ragged(com), to_ragged(width[1]), to_ragged(width[2]): a call of the
\* function; the name the result is bound to is ret.
ToRaggedCall ==
    /\ arg.bound
    /\ ret' = to_ragged(arg)
    /\ UNCHANGED arg

NextRagged == ToRaggedCall /\ UNCHANGED <<imported, out, pc, mlstate, clstate>>

SpecRagged == InitRagged /\ [][NextRagged]_vars

\* ---------------------------------------------------------------- claims

NonNegative(sig) == \A c \in DOMAIN sig.data : sig.data[c] >= 0

\* C21: the offset-subtraction step s.data -= s.data.min() leaves the data
\* with minimum exactly 0 and every sample >= 0, keeps the difference between
\* any two samples, and changes nothing when applied a second time; and the
\* data stays non-negative from then on (until the file is loaded again), so
\* an NMF call made after the step meets no negative entry.
C21_OffsetSubtractionMakesNonNegative ==
    [][/\ OffsetSubtractStatement =>
            /\ s'.shape = s.shape
            /\ DOMAIN s'.data = DOMAIN s.data
            /\ \E c \in DOMAIN s'.data : s'.data[c] = 0
            /\ NonNegative(s')
            /\ \A a, b \in DOMAIN s.data :
                  s'.data[a] - s'.data[b] = s.data[a] - s.data[b]
            /\ OffsetSubtracted(s'.data) = s'.data
       /\ (s.bound /\ NonNegative(s) /\ ~LoadCell) => NonNegative(s')
       /\ (DecompositionNMFCell /\ s.data = OffsetSubtracted(s.data))
            => NonNegative(s)]_vars

\* C21 witness: the file held a negative sample, the offset step changed the
\* data, and the NMF decomposition was then called on the shifted data.
C21_NMFAfterOffsetOfNegativeData ==
    /\ s.bound
    /\ \E c \in DOMAIN file.data : file.data[c] < 0
    /\ s.data # file.data
    /\ NonNegative(s)
    /\ learning = NMFCall

\* C22: in the notebook workflow blind_source_separation is run only while
\* the most recent decomposition of the signal is the SVD one (the SVD is
\* run again after the NMF decomposition, before the separation), and the
\* plot_bss_* calls come only after blind_source_separation.
C22_ICAOnlyAfterSVD ==
    /\ bss.call = "blind_source_separation" => (bss.on = SVDCall /\ pc > 10)
    /\ (pc > 12) => (bss.call = "blind_source_separation" /\ learning = SVDCall)
    /\ out[1] = "bss plot" => out[2].call = "blind_source_separation"

\* C22 witness: the NMF cell has been run, the SVD was run again, the
\* separation acted on it and its results have been plotted.
C22_BssPlottedAfterRerun ==
    /\ pc = 14
    /\ bss.call = "blind_source_separation"
    /\ bss.on = SVDCall
    /\ out[1] = "bss plot"

C24_EveryRebinHalves ==
    [][RebinCell =>
        /\ RebinScale * heap'[cl2'].shape[3] = heap[cl2].shape[3]
        /\ heap'[cl2'].shape[1] = heap[cl2].shape[1]
        /\ heap'[cl2'].shape[2] = heap[cl2].shape[2]]_vars

\* C24, amended: the cell changes only the signal axis.  An execution on a
\* signal with a positive even number L of channels leaves L/2 channels, each
\* computed from two neighbouring channels of the same pixel of the signal the
\* cell was run on (so a second run rebins the rebinned signal); with an odd
\* L the length is not halved exactly (the cell raises, or the length is L/2
\* rounded down or up).  Whenever the cell does not raise, both navigation
\* sizes and the marks of the in-place tools are unchanged.
C24_RebinHalvesEvenLength ==
    [][RebinCell =>
        /\ out'[1] # "error" =>
             /\ heap'[cl2'].shape[1] = heap[cl2].shape[1]
             /\ heap'[cl2'].shape[2] = heap[cl2].shape[2]
             /\ heap'[cl2'].edits = heap[cl2].edits
             /\ heap'[cl2'].shape[3] <= heap[cl2].shape[3]
        /\ (heap[cl2].shape[3] > 0 /\ heap[cl2].shape[3] % RebinScale = 0) =>
             /\ out'[1] # "error"
             /\ RebinScale * heap'[cl2'].shape[3] = heap[cl2].shape[3]
             /\ \A c \in DOMAIN heap'[cl2'].data :
                    heap'[cl2'].data[c] =
                        heap[cl2].data[<<c[1], c[2], RebinScale * c[3]>>]
                        \cup heap[cl2].data[<<c[1], c[2], RebinScale * c[3] + 1>>]
        /\ out'[1] = "error" => heap' = heap]_vars

\* C24 witness: the rebin cell has been run twice on a map whose length is
\* a multiple of four: a quarter of the channels are left and every sample
\* is computed from four samples of the file.
C24_RebinnedTwice ==
    /\ cl2 # 0
    /\ heap[cl2].shape[3] > 0
    /\ RebinScale * RebinScale * heap[cl2].shape[3] = dm4[3]
    /\ heap[cl2].shape[1] = dm4[1]
    /\ heap[cl2].shape[2] = dm4[2]
    /\ \A c \in DOMAIN heap[cl2].data :
           Cardinality(heap[cl2].data[c]) = RebinScale * RebinScale

\* C25: the smoothing cell leaves the signal cl2 holds as it was and binds
\* cl2a to another object with the same samples, which alone carries the
\* smoothing; a model that has been fitted is the model of the signal cl2
\* holds, and that signal has never been smoothed.
C25_SmoothingOnlyOnCopy ==
    [][/\ CopySmoothCell =>
            /\ cl2' = cl2
            /\ heap'[cl2'] = heap[cl2]
            /\ cl2a' # cl2'
            /\ heap'[cl2a'].shape = heap[cl2].shape
            /\ heap'[cl2a'].data = heap[cl2].data
            /\ heap'[cl2a'].edits \subseteq heap[cl2].edits \cup {"smooth_lowess"}
       /\ m'.bound =>
            /\ m'.signal = cl2'
            /\ "smooth_lowess" \notin heap'[m'.signal].edits]_vars

\* C25 witness: the copy has been smoothed, and the model created from cl2
\* afterwards has been fitted.
C25_FittedAfterSmoothingCopy ==
    /\ cl2a # 0
    /\ "smooth_lowess" \in heap[cl2a].edits
    /\ m.bound
    /\ m.fitted
    /\ m.signal = cl2

\* C26: spikes_removal_tool overwrites the signal it is called on: cl2 stays
\* bound to the same object, the object carries the change, and a model
\* created from that object sees it.  isig indexing and rebin return a new
\* signal: when the cell does not raise, cl2 is bound to an object no other
\* name holds, and the signal a model was created from is left exactly as
\* it was.
C26_InPlaceVersusNewSignal ==
    [][/\ SpikesRemovalCell =>
            /\ cl2' = cl2
            /\ "spikes_removal_tool" \in heap'[cl2'].edits
            /\ heap'[cl2'].shape = heap[cl2].shape
            /\ (m.bound /\ m.signal = cl2) =>
                  (m'.signal = cl2'
                   /\ "spikes_removal_tool" \in heap'[m'.signal].edits)
       /\ ((CropCell \/ RebinCell) /\ out'[1] # "error" /\ m.bound) =>
            /\ m'.signal # cl2'
            /\ heap'[m'.signal] = heap[m.signal]]_vars

\* C26 witness: a model was created from the loaded map, the spike removal
\* was run (the model's signal carries it) and then the crop (the model's
\* signal still has the three channels cl2 has lost).
C26_ModelKeepsUncroppedSignal ==
    /\ cl2 # 0
    /\ m.bound
    /\ m.signal # cl2
    /\ heap[m.signal].shape = dm4
    /\ "spikes_removal_tool" \in heap[m.signal].edits
    /\ heap[cl2].shape[3] > 0
    /\ heap[cl2].shape[3] = heap[m.signal].shape[3] - CropPixels

\* C27: in a run of the notebook the model is created without components
\* (and m.components displays an empty list), after the append cell its
\* component list is exactly the one SkewNormal component g1 (which the cell
\* displays), and the model is fitted only once that component is in it.
C27_ModelLifecycle ==
    /\ m.bound <=> pc >= 11
    /\ pc \in 11..12 => m.components = <<>>
    /\ pc = 12 => out = <<"components", <<>>>>
    /\ pc >= 13 => m.components = <<[component |-> "SkewNormal", x0 |-> X0Start]>>
    /\ pc = 13 => out = <<"components", <<[component |-> "SkewNormal", x0 |-> X0Start]>>>>
    /\ (m.bound /\ m.fitted) => (pc >= 15 /\ Len(m.components) = 1)

\* C27 witness: the run has reached the end of the notebook with the model
\* fitted and holding the one component.
C27_FittedWithOneComponent ==
    /\ pc = 17
    /\ m.bound
    /\ m.fitted
    /\ m.components = <<[component |-> "SkewNormal", x0 |-> X0Start]>>

====
